---- MODULE Spec2Model ----
(***************************************************************************)
(* Dyson ring visualisation (src/main.py).                                 *)
(*                                                                         *)
(* Three specifications over one set of variables:                         *)
(*   SpecGeom  - the pure functions make_curved_beveled_segment and        *)
(*               reverse_edge_flags, and the derivation of the front and   *)
(*               back RenderItem of one face (main, lines 211-215);        *)
(*   SpecFrame - the compositor part of one loop iteration of main         *)
(*               (lines 176-234), repeated frame after frame, on the       *)
(*               scenes startup (lines 150-159) can build;                 *)
(*   SpecLoop  - the event handling and loop control of main               *)
(*               (lines 161-174 and 234-237); FairLoop adds the fairness   *)
(*               of a sequential program that keeps running.               *)
(* The event loop writes running, dragging, last_mouse_pos, view_yaw and   *)
(* view_pitch and never the render list, the light queue or the screen;    *)
(* the compositor writes those and reads the view only through mat.        *)
(*                                                                         *)
(* Floating-point quantities are kept as integers:                         *)
(*   - angles (view_yaw, view_pitch) in units of 0.001 rad, in exact       *)
(*     arithmetic: the rounding of IEEE doubles is not modelled;           *)
(*   - a depth key is the SUM of the rotated z of the face's four vertices *)
(*     (4 * avg_z); a vertex sits on an integer lattice (arc position,     *)
(*     radius, height) and the z row of the rotation matrix, which the     *)
(*     program computes from yaw, pitch and frame by trigonometry, is      *)
(*     drawn from ViewRows each frame.  Key differences are 0, 2, 4, ..    *)
(*     and DOUBLE_FACE_Z_OFFSET is 3, so that faces may tie, lie closer    *)
(*     than the offset, or farther apart.                                  *)
(* Vertices, projected points and lights are carried by identity           *)
(* (segment, index) instead of by coordinates, sizes and colours.          *)
(***************************************************************************)
EXTENDS Integers, Sequences, FiniteSets, TLC

\* ----------------------------------------------------------------- bounds
MaxSubdivs == 6          \* SpecGeom: subdivs ranges over 1..MaxSubdivs
MaxFlagLen == 4          \* SpecGeom: flag lists of length 0..MaxFlagLen
N_SEGMENTS == 2          \* line 27 (12 in the program), scaled down
SUBDIVISIONS == 1        \* line 33 (6 in the program), scaled down
LIGHTS_PER_SEGMENT == 1  \* line 34 (200 in the program), scaled down
MaxStride == 1           \* SpecFrame: stride of the light placement generator
MaxCoef == 1             \* entries of the rotation's z row: -MaxCoef..MaxCoef
MaxFrame == 2            \* SpecLoop: no new frame is started at MaxFrame
MaxBatch == 1            \* SpecLoop: events returned by one pygame.event.get()
MaxMouseStep == 1        \* SpecLoop: mouse coordinates 0, 100, .. 100*MaxMouseStep
MaxTurn == 1             \* SpecLoop: |angle - initial| <= 500 * MaxTurn

\* -------------------------------------------------------------- constants
points_per_ring == 4           \* line 82
DOUBLE_FACE_Z_OFFSET == 3      \* line 49: 1e-4, in the model's depth unit
SENSITIVITY == 5               \* line 174: 0.005 rad per pixel, in 0.001 rad
INITIAL_YAW == 733             \* line 38: radians(42), in 0.001 rad
TILT == 663                    \* line 37: radians(38), in 0.001 rad

VARIABLES
    \* SpecGeom
    subdivs,            \* argument subdivs of make_curved_beveled_segment
    segment,            \* its result, NoSegment before the call
    flags_in,           \* argument of reverse_edge_flags
    flags_out,          \* result of applying it rev_count times
    rev_count,
    items,              \* <<front, back>> RenderItems derived from one face
    \* SpecFrame
    segments,           \* main: segments (line 150-159)
    view,               \* z row of mat (line 184)
    render_list,        \* line 193
    light_draw_queue,   \* line 194
    screen,             \* the draw calls issued on screen this frame
    fpc,                \* position inside the frame body
    \* SpecLoop
    pc,                 \* position in main's loop
    running, dragging, last_mouse_pos, view_yaw, view_pitch, frame,
    event,              \* loop variable of line 167
    pending,            \* events of the polled batch not yet handled
    drag_origin         \* history: position and angles at the last button-1 down

geomVars == <<subdivs, segment, flags_in, flags_out, rev_count, items>>
frameVars == <<segments, view, render_list, light_draw_queue, screen, fpc>>
loopVars == <<pc, running, dragging, last_mouse_pos, view_yaw, view_pitch,
              frame, event, pending, drag_origin>>
vars == <<geomVars, frameVars, loopVars>>

\* ------------------------------------------------------- python built-ins
reversed(s) == [k \in 1..Len(s) |-> s[Len(s) + 1 - k]]

Min(a, b) == IF a <= b THEN a ELSE b

\* ======================================================================
\* make_curved_beveled_segment (lines 76-99)
\* ======================================================================

\* linspace called with subdivs samples instead of subdivs + 1
theta_steps_short(n) == [k \in 1..n |-> k - 1]

\* line 80: np.linspace(.., subdivs + 1); a ring angle is kept as its index
theta_steps(n) == [k \in 1..(n + 1) |-> k - 1]

\* the two ring-edge flags exchanged
draw_flags_swapped(i, n_rings) == <<TRUE, i = 1, TRUE, i = n_rings - 1>>

\* line 92
draw_flags(i, n_rings) == <<TRUE, i = n_rings - 1, TRUE, i = 1>>

\* line 86: the 4 cross-section corners of ring i
RingVerts(i) == [k \in 1..points_per_ring |-> [ring |-> i, corner |-> k - 1]]

\* lines 90-93: for j in range(points_per_ring)
RECURSIVE SideLoop(_, _, _, _)
SideLoop(i, j, n_rings, faces) ==
    IF j >= points_per_ring THEN faces
    ELSE LET base == i * points_per_ring
             prev_base == (i - 1) * points_per_ring
             next_j == (j + 1) % points_per_ring
             face == [indices |-> <<prev_base + j, base + j,
                                    base + next_j, prev_base + next_j>>,
                      flags |-> draw_flags(i, n_rings)]
         IN SideLoop(i, j + 1, n_rings, Append(faces, face))

\* lines 84-93: for i, theta in enumerate(theta_steps)
RECURSIVE RingLoop(_, _, _)
RingLoop(i, steps, acc) ==
    IF i >= Len(steps) THEN acc
    ELSE LET verts == acc.verts \o RingVerts(steps[i + 1])
             faces == IF i > 0 THEN SideLoop(i, 0, Len(steps), acc.faces)
                      ELSE acc.faces
         IN RingLoop(i + 1, steps, [verts |-> verts, faces |-> faces])

\* lines 96-98
EndCaps(n_rings) ==
    LET last_base == (n_rings - 1) * points_per_ring
        all4 == [k \in 1..4 |-> TRUE]
    IN << [indices |-> <<0, 1, 2, 3>>, flags |-> all4],
          [indices |-> <<last_base + 3, last_base + 2, last_base + 1, last_base>>,
           flags |-> all4] >>

make_curved_beveled_segment(subdivs_) ==
    LET steps == theta_steps(subdivs_)
        body == RingLoop(0, steps, [verts |-> <<>>, faces |-> <<>>])
    IN [verts |-> body.verts, edges |-> <<>>,
        faces |-> body.faces \o EndCaps(Len(steps))]

\* ======================================================================
\* reverse_edge_flags (lines 117-120)
\* ======================================================================
\* the flags rotated by one place instead of re-mapped
rotate_edge_flags(edge_flags) ==
    IF Len(edge_flags) <= 1 THEN edge_flags
    ELSE SubSeq(edge_flags, 2, Len(edge_flags)) \o <<edge_flags[1]>>

\* the whole list reversed, the last flag not kept in place
plain_reversed_flags(edge_flags) == reversed(edge_flags)

reverse_edge_flags(edge_flags) ==
    IF Len(edge_flags) <= 1 THEN edge_flags
    ELSE reversed(SubSeq(edge_flags, 1, Len(edge_flags) - 1))
         \o <<edge_flags[Len(edge_flags)]>>

\* ======================================================================
\* RenderItems of one face (main, lines 211-215)
\* ======================================================================
\* the offset applied with the wrong sign
back_depth_in_front(avg_z) == avg_z + DOUBLE_FACE_Z_OFFSET

\* line 215: depth key of the back item
back_depth(avg_z) == avg_z - DOUBLE_FACE_Z_OFFSET

FrontItem(avg_z, points_2d, edge_flags, proj_lights) ==
    [depth |-> avg_z, type |-> "face", points |-> points_2d,
     edge_color |-> "FACE_EDGE_FRONT", edge_flags |-> edge_flags,
     lights |-> proj_lights, is_back |-> FALSE]

BackItem(avg_z, points_2d, edge_flags, proj_lights) ==
    [depth |-> back_depth(avg_z), type |-> "face",
     points |-> reversed(points_2d),
     edge_color |-> "FACE_EDGE_BACK",
     edge_flags |-> reverse_edge_flags(edge_flags),
     lights |-> proj_lights, is_back |-> TRUE]

\* lines 224-226: the lines stroked for one RenderItem, in order
RECURSIVE EdgeLoop(_, _, _)
EdgeLoop(k, item, ops) ==
    LET edge_count == Min(Len(item.points), Len(item.edge_flags))
    IN IF k >= edge_count THEN ops
       ELSE EdgeLoop(k + 1, item,
                IF item.edge_flags[k + 1]
                THEN Append(ops, [op |-> "line", color |-> item.edge_color,
                                  from |-> item.points[k + 1],
                                  to |-> item.points[((k + 1) % Len(item.points)) + 1]])
                ELSE ops)

\* ======================================================================
\* SpecGeom: the pure functions applied to bounded inputs
\* ======================================================================
NoSegment == [verts |-> <<>>, edges |-> <<>>, faces |-> <<>>]
NoEvent == [type |-> "NONE", key |-> "", button |-> 0, pos |-> <<0, 0>>]
NoOrigin == [pos |-> <<0, 0>>, yaw |-> INITIAL_YAW, pitch |-> TILT]

FlagLists == UNION {[1..n -> BOOLEAN] : n \in 0..MaxFlagLen}

GeomIdle ==
    /\ subdivs = 1 /\ segment = NoSegment /\ flags_in = <<>>
    /\ flags_out = <<>> /\ rev_count = 0 /\ items = <<>>

FrameIdle ==
    /\ segments = <<>> /\ view = <<0, 0, 0>> /\ render_list = <<>>
    /\ light_draw_queue = <<>> /\ screen = <<>> /\ fpc = "idle"

LoopIdle ==
    /\ pc = "idle" /\ running = TRUE /\ dragging = FALSE
    /\ last_mouse_pos = <<0, 0>> /\ view_yaw = INITIAL_YAW /\ view_pitch = TILT
    /\ frame = 0 /\ event = NoEvent /\ pending = 0 /\ drag_origin = NoOrigin

\* line 202: a projected point is kept as the vertex it is the image of
points_of(s, face_indices) ==
    [k \in 1..Len(face_indices) |-> [seg |-> s, idx |-> face_indices[k]]]

InitGeom ==
    /\ subdivs \in 1..MaxSubdivs
    /\ segment = NoSegment
    /\ flags_in \in FlagLists
    /\ flags_out = flags_in
    /\ rev_count = 0
    /\ items = <<>>
    /\ FrameIdle /\ LoopIdle

\* v, e, f = make_curved_beveled_segment(.., subdivs, ..)
BuildSegment ==
    /\ segment = NoSegment
    /\ segment' = make_curved_beveled_segment(subdivs)
    /\ UNCHANGED <<subdivs, flags_in, flags_out, rev_count, items>>
    /\ UNCHANGED <<frameVars, loopVars>>

\* flags = reverse_edge_flags(flags), at most twice
ReverseFlags ==
    /\ rev_count < 2
    /\ flags_out' = reverse_edge_flags(flags_out)
    /\ rev_count' = rev_count + 1
    /\ UNCHANGED <<subdivs, segment, flags_in, items>>
    /\ UNCHANGED <<frameVars, loopVars>>

\* lines 211-215 for face i of the built segment, depth key z
DeriveItems(i, z) ==
    /\ segment # NoSegment
    /\ items = <<>>
    /\ LET face == segment.faces[i]
           pts == points_of(0, face.indices)
       IN items' = << FrontItem(z, pts, face.flags, <<>>),
                      BackItem(z, pts, face.flags, <<>>) >>
    /\ UNCHANGED <<subdivs, segment, flags_in, flags_out, rev_count>>
    /\ UNCHANGED <<frameVars, loopVars>>

NextGeom ==
    \/ BuildSegment
    \/ ReverseFlags
    \/ \E i \in 1..Len(segment.faces), z \in 0..1 : DeriveItems(i, z)

SpecGeom == InitGeom /\ [][NextGeom]_vars

\* ---------------------------------------------------------------- claims

\* C1: for every subdivisions >= 1 the segment has subdivisions*4 + 2 faces
\* and (subdivisions+1)*4 vertices, and every face has exactly 4 vertex
\* indices and 4 edge-draw flags.
C1_SegmentCounts ==
    segment # NoSegment =>
        /\ Len(segment.faces) = subdivs * 4 + 2
        /\ Len(segment.verts) = (subdivs + 1) * 4
        /\ \A k \in 1..Len(segment.faces) :
              /\ Len(segment.faces[k].indices) = 4
              /\ Len(segment.faces[k].flags) = 4

C1_Witness ==
    /\ segment # NoSegment /\ subdivs = 6
    /\ Len(segment.faces) = 26 /\ Len(segment.verts) = 28

\* An edge of a face, as the unordered pair of its end points
EdgeOf(pts, k) == {pts[k], pts[(k % Len(pts)) + 1]}
RingOf(idx) == idx \div points_per_ring

\* C9: the side faces of ring step i carry flags [true, i is the last step,
\* true, i is the first step], both end caps carry 4 true flags; hence in
\* every face a ring edge of an interior ring is invisible, and ring edges of
\* ring 0 and ring subdivisions and all long edges are visible.
C9_EdgeFlags ==
    segment # NoSegment =>
        /\ \A k \in 1..Len(segment.faces) :
              LET i == ((k - 1) \div 4) + 1
              IN segment.faces[k].flags =
                    IF k <= 4 * subdivs
                    THEN <<TRUE, i = subdivs, TRUE, i = 1>>
                    ELSE <<TRUE, TRUE, TRUE, TRUE>>
        /\ \A k \in 1..Len(segment.faces) : \A e \in 1..4 :
              LET f == segment.faces[k]
                  a == f.indices[e]
                  b == f.indices[(e % 4) + 1]
              IN IF RingOf(a) = RingOf(b)
                 THEN f.flags[e] <=> (RingOf(a) \in {0, subdivs})
                 ELSE f.flags[e]

C9_Witness ==
    /\ segment # NoSegment /\ subdivs = 3
    /\ segment.faces[5].flags = <<TRUE, FALSE, TRUE, FALSE>>
    /\ segment.faces[1].flags = <<TRUE, FALSE, TRUE, TRUE>>
    /\ segment.faces[9].flags = <<TRUE, TRUE, TRUE, FALSE>>

\* C4: for a flag list of length >= 2, reverse_edge_flags applied twice gives
\* the list back, and one application keeps the length.
C4_ReverseInvolution ==
    Len(flags_in) >= 2 =>
        /\ rev_count >= 1 => Len(flags_out) = Len(flags_in)
        /\ rev_count = 2 => flags_out = flags_in

C4_Witness ==
    /\ rev_count = 2 /\ Len(flags_in) = 4
    /\ flags_in[1] # flags_in[3]
    /\ flags_out = flags_in

\* The front edge that joins the same two vertices as back edge k
FrontEdgeOf(front, back, k) ==
    CHOOSE e \in 1..Len(front.points) :
        EdgeOf(front.points, e) = EdgeOf(back.points, k)

\* The set of physical edges an item strokes
Stroked(item) == {{l.from, l.to} : l \in
                    {EdgeLoop(0, item, <<>>)[n] : n \in 1..Len(EdgeLoop(0, item, <<>>))}}

\* C3: the back RenderItem of a face strokes the same physical edges as the
\* front one: back edge k is flagged visible iff the front edge joining the
\* same two vertices is.
C3_BackStrokesSameEdges ==
    items # <<>> =>
        LET front == items[1]
            back == items[2]
        IN /\ Len(back.points) = Len(front.points)
           /\ Len(back.edge_flags) = Len(front.edge_flags)
           /\ \A k \in 1..Len(back.points) :
                 /\ \E e \in 1..Len(front.points) :
                       EdgeOf(front.points, e) = EdgeOf(back.points, k)
                 /\ back.edge_flags[k] =
                       front.edge_flags[FrontEdgeOf(front, back, k)]
           /\ Stroked(back) = Stroked(front)

C3_Witness ==
    /\ items # <<>>
    /\ items[1].edge_flags = <<TRUE, FALSE, TRUE, TRUE>>
    /\ items[2].is_back
    /\ items[2].points = reversed(items[1].points)
    /\ Cardinality(Stroked(items[2])) = 3

\* ======================================================================
\* SpecFrame: the compositor, lines 176-234 of main, frame after frame
\* ======================================================================

\* lines 150-159: one entry of segments; place[n] is the face index drawn by
\* random.randrange for light n, a light is kept as its identity
face_lights_of(s, f, place) ==
    IF Len(f) > 0 /\ LIGHTS_PER_SEGMENT > 0
    THEN [fi \in 1..Len(f) |->
            SelectSeq([n \in 1..LIGHTS_PER_SEGMENT |-> [seg |-> s, n |-> n]],
                      LAMBDA l : place[l.n] = fi)]
    ELSE [fi \in 1..Len(f) |-> <<>>]

SegmentEntry(s, place) ==
    LET g == make_curved_beveled_segment(SUBDIVISIONS)
    IN [verts |-> g.verts, edges |-> g.edges, faces |-> g.faces,
        face_lights |-> face_lights_of(s, g.faces, place)]

FacesPerSegment == Len(make_curved_beveled_segment(SUBDIVISIONS).faces)

\* line 157: random.randrange(len(f)), draw number k (from 0) of a generator
\* that is a function of its seed; the model's generator steps by a stride
randrange(seed, stride, k, n) == (seed + k * stride) % n

\* lines 150-159: the scenes startup can build, one per seed and stride
Scenes ==
    {[s \in 1..N_SEGMENTS |->
        SegmentEntry(s, [n \in 1..LIGHTS_PER_SEGMENT |->
            randrange(seed, stride, (s - 1) * LIGHTS_PER_SEGMENT + n - 1,
                      FacesPerSegment) + 1])] :
        seed \in 0..(FacesPerSegment - 1), stride \in 0..MaxStride}

\* line 184: the z row of mat, the only part of it a depth key depends on
ViewRows == {<<a, b, c>> : a \in -MaxCoef..MaxCoef, b \in -MaxCoef..MaxCoef,
                           c \in -MaxCoef..MaxCoef}

\* lines 79, 86: cross-section radius and height of corner j, and the arc
\* position of ring i of segment s, on an integer lattice
rs == <<0, 1, 1, 0>>
zs == <<-1, -1, 1, 1>>
ArcPos(s, ring) == (s - 1) * (SUBDIVISIONS + 2) + ring

\* line 196: v_world[idx][2]
v_world_z(vw, s, v) ==
    vw[1] * ArcPos(s, v.ring) + vw[2] * rs[v.corner + 1] + vw[3] * zs[v.corner + 1]

\* line 203, times len(face_indices)
RECURSIVE SumZ(_, _, _, _, _)
SumZ(k, vw, s, verts, face_indices) ==
    IF k > Len(face_indices) THEN 0
    ELSE v_world_z(vw, s, verts[face_indices[k] + 1])
         + SumZ(k + 1, vw, s, verts, face_indices)

avg_z(vw, s, verts, face_indices) == SumZ(1, vw, s, verts, face_indices)

\* line 142: the visibility mask of project_points is all ones
mask_v(idx) == TRUE

\* lines 205-209: projected lights of a face, one per light, same order
proj_lights_of(lights_local_i) ==
    IF lights_local_i # <<>>
    THEN [j \in 1..Len(lights_local_i) |-> lights_local_i[j]]
    ELSE <<>>

\* the lights queued once per side
extend_queue_per_side(queue, proj_lights) == queue \o proj_lights \o proj_lights

\* line 216
extend_queue(queue, proj_lights) == queue \o proj_lights

\* The concatenation of seqs[lo..hi], in order: what a loop that extends one
\* list by each of them leaves in it
RECURSIVE Flatten(_, _, _)
Flatten(seqs, lo, hi) ==
    IF lo > hi THEN <<>>
    ELSE IF lo = hi THEN seqs[lo]
    ELSE LET mid == (lo + hi) \div 2
         IN Flatten(seqs, lo, mid) \o Flatten(seqs, mid + 1, hi)

\* lines 201-216: the body of the face loop for face i of segment s; what it
\* appends to render_list (rl) and to light_draw_queue (q)
FaceBody(i, s, seg, vw) ==
    LET face == seg.faces[i]
    IN IF ~(\A k \in 1..Len(face.indices) : mask_v(face.indices[k]))
       THEN [rl |-> <<>>, q |-> <<>>]
       ELSE LET pts == points_of(s, face.indices)
                z == avg_z(vw, s, seg.verts, face.indices)
                pl == proj_lights_of(seg.face_lights[i])
            IN [rl |-> << FrontItem(z, pts, face.flags, pl),
                          BackItem(z, pts, face.flags, pl) >>,
                q |-> extend_queue(<<>>, pl)]

\* lines 200-216: for i, (face_indices, edge_flags) in enumerate(faces_local)
FaceLoop(s, seg, vw) ==
    LET body == [i \in 1..Len(seg.faces) |-> FaceBody(i, s, seg, vw)]
    IN [rl |-> Flatten([i \in 1..Len(seg.faces) |-> body[i].rl], 1, Len(seg.faces)),
        q |-> Flatten([i \in 1..Len(seg.faces) |-> body[i].q], 1, Len(seg.faces))]

\* lines 195-198: for verts_local, edges, faces_local, lights_local in segments
SegmentLoop(segs, vw) ==
    LET body == [s \in 1..Len(segs) |->
                    IF Len(segs[s].verts) = 0 THEN [rl |-> <<>>, q |-> <<>>]
                    ELSE FaceLoop(s, segs[s], vw)]
    IN [rl |-> Flatten([s \in 1..Len(segs) |-> body[s].rl], 1, Len(segs)),
        q |-> Flatten([s \in 1..Len(segs) |-> body[s].q], 1, Len(segs))]

\* the items of list with depth key lo, lo + 1, .. hi, key after key, the
\* items of one key in the order they have in list
ByKey(list, lo, hi) ==
    Flatten([d \in 1..(hi - lo + 1) |->
                SelectSeq(list, LAMBDA it : it.depth = lo + d - 1)],
            1, hi - lo + 1)

DepthKeys(list) == {list[k].depth : k \in 1..Len(list)}

\* the sort left out
not_sorted(list) == list

\* line 218: list.sort(key=depth) is a stable sort: ascending keys, items
\* with equal keys in the order they were appended
sort_by_depth(list) ==
    IF list = <<>> THEN <<>>
    ELSE ByKey(list,
               CHOOSE d \in DepthKeys(list) : \A e \in DepthKeys(list) : d <= e,
               CHOOSE d \in DepthKeys(list) : \A e \in DepthKeys(list) : d >= e)

\* lines 122-135: draw_translucent_polygon
draw_translucent_polygon(points, color) ==
    IF Len(points) < 3 THEN <<>>
    ELSE << [op |-> "polygon", color |-> color, points |-> points] >>

\* lines 221-226: the body of the paint loop for one item
PaintBody(item) ==
    LET fill_color == IF item.is_back THEN "FACE_FILL_BACK" ELSE "FACE_FILL_FRONT"
    IN IF item.type = "face"
       THEN EdgeLoop(0, item, draw_translucent_polygon(item.points, fill_color))
       ELSE <<>>

\* lines 220-226
PaintLoop(list) ==
    Flatten([k \in 1..Len(list) |-> PaintBody(list[k])], 1, Len(list))

\* lines 228-229
light_circles(queue) ==
    [k \in 1..Len(queue) |-> [op |-> "circle", light |-> queue[k]]]

InitFrame ==
    /\ segments \in Scenes
    /\ view = <<0, 0, 0>>
    /\ render_list = <<>>
    /\ light_draw_queue = <<>>
    /\ screen = <<>>
    /\ fpc = "begin"
    /\ GeomIdle /\ LoopIdle

\* lines 176-194: clear, background stars, rotation matrix, central star,
\* empty render list and light queue
BeginFrame(vw) ==
    /\ fpc = "begin"
    /\ screen' = << [op |-> "fill"], [op |-> "bg_stars"], [op |-> "glow"],
                    [op |-> "star"] >>
    /\ view' = vw
    /\ render_list' = <<>>
    /\ light_draw_queue' = <<>>
    /\ fpc' = "build"
    /\ UNCHANGED <<segments, geomVars, loopVars>>

\* lines 195-216
BuildRenderList ==
    /\ fpc = "build"
    /\ LET r == SegmentLoop(segments, view)
       IN /\ render_list' = r.rl
          /\ light_draw_queue' = r.q
    /\ fpc' = "sort"
    /\ UNCHANGED <<segments, view, screen, geomVars, loopVars>>

\* line 218
SortRenderList ==
    /\ fpc = "sort"
    /\ render_list' = sort_by_depth(render_list)
    /\ fpc' = "paint"
    /\ UNCHANGED <<segments, view, light_draw_queue, screen, geomVars, loopVars>>

\* lines 220-226
PaintFaces ==
    /\ fpc = "paint"
    /\ screen' = screen \o PaintLoop(render_list)
    /\ fpc' = "lights"
    /\ UNCHANGED <<segments, view, render_list, light_draw_queue, geomVars, loopVars>>

\* lines 228-229
DrawLights ==
    /\ fpc = "lights"
    /\ screen' = screen \o light_circles(light_draw_queue)
    /\ fpc' = "present"
    /\ UNCHANGED <<segments, view, render_list, light_draw_queue, geomVars, loopVars>>

\* lines 231-236: overlay text, flip, next iteration
Present ==
    /\ fpc = "present"
    /\ screen' = screen \o << [op |-> "text"], [op |-> "flip"] >>
    /\ fpc' = "begin"
    /\ UNCHANGED <<segments, view, render_list, light_draw_queue, geomVars, loopVars>>

NextFrame ==
    \/ \E vw \in ViewRows : BeginFrame(vw)
    \/ BuildRenderList
    \/ SortRenderList
    \/ PaintFaces
    \/ DrawLights
    \/ Present

SpecFrame == InitFrame /\ [][NextFrame]_vars

\* ---------------------------------------------------------------- claims
RECURSIVE SumLen(_, _)
SumLen(k, seqs) == IF k > Len(seqs) THEN 0 ELSE Len(seqs[k]) + SumLen(k + 1, seqs)

TotalFaces == SumLen(1, [s \in 1..Len(segments) |-> segments[s].faces])
TotalLights ==
    SumLen(1, [s \in 1..Len(segments) |-> [n \in 1..SumLen(1, segments[s].face_lights) |-> n]])

Positions(list, P(_)) == {k \in 1..Len(list) : P(list[k])}

FrontsOf(s, fi) ==
    Positions(render_list,
        LAMBDA it : ~it.is_back /\ it.points = points_of(s, segments[s].faces[fi].indices))
BacksOf(s, fi) ==
    Positions(render_list,
        LAMBDA it : it.is_back
                    /\ it.points = reversed(points_of(s, segments[s].faces[fi].indices)))

FaceIds == {<<s, fi>> : s \in 1..Len(segments), fi \in 1..FacesPerSegment}

\* C2: when painting starts the render list holds 2 * (total faces) items, one
\* front and one back item per face, and is non-decreasing in depth key.
C2_RenderListShape ==
    fpc = "paint" =>
        /\ Len(render_list) = 2 * TotalFaces
        /\ \A id \in FaceIds :
              /\ Cardinality(FrontsOf(id[1], id[2])) = 1
              /\ Cardinality(BacksOf(id[1], id[2])) = 1
        /\ \A k \in 1..(Len(render_list) - 1) :
              render_list[k].depth <= render_list[k + 1].depth

C2_Witness ==
    /\ fpc = "paint"
    /\ Len(render_list) = 2 * N_SEGMENTS * (SUBDIVISIONS * 4 + 2)
    /\ \E k \in 1..(Len(render_list) - 1) :
          render_list[k].depth < render_list[k + 1].depth
    /\ render_list # SegmentLoop(segments, view).rl

PosOf(S) == CHOOSE k \in S : TRUE

\* C5 as stated: the back item sits directly before its front twin, no item
\* of another face in between.
C5_TwinsAdjacent ==
    fpc = "paint" =>
        \A id \in FaceIds :
            PosOf(FrontsOf(id[1], id[2])) = PosOf(BacksOf(id[1], id[2])) + 1

\* C5 amended: the back item of a face is painted before its front twin, and
\* an item of another face lies between the two only with a depth key between
\* the twins' keys, i.e. within DOUBLE_FACE_Z_OFFSET of the face's key.
C5_BackBeforeFront ==
    fpc = "paint" =>
        \A id \in FaceIds :
            LET b == PosOf(BacksOf(id[1], id[2]))
                f == PosOf(FrontsOf(id[1], id[2]))
            IN /\ b < f
               /\ render_list[b].depth = render_list[f].depth - DOUBLE_FACE_Z_OFFSET
               /\ \A m \in (b + 1)..(f - 1) :
                     /\ render_list[m].depth >= render_list[f].depth - DOUBLE_FACE_Z_OFFSET
                     /\ render_list[m].depth <= render_list[f].depth

C5_Witness ==
    /\ fpc = "paint"
    /\ \E id \in FaceIds :
          LET b == PosOf(BacksOf(id[1], id[2]))
              f == PosOf(FrontsOf(id[1], id[2]))
          IN /\ f > b + 1
             /\ \E m \in (b + 1)..(f - 1) :
                   /\ render_list[m].depth > render_list[b].depth
                   /\ render_list[m].depth < render_list[f].depth

CirclePositions == Positions(screen, LAMBDA o : o.op = "circle")
FacePaintPositions == Positions(screen, LAMBDA o : o.op \in {"polygon", "line"})
AllLights == {[seg |-> s, n |-> n] : s \in 1..Len(segments), n \in 1..LIGHTS_PER_SEGMENT}

\* C6: every light circle is drawn after the last face fill and edge stroke of
\* the frame, and when the lights have been drawn each light of each segment
\* has been drawn exactly once (as many circles as lights), although the front
\* and the back item of a face both carry the face's lights.
C6_LightsOnceOnTop ==
    /\ \A c \in CirclePositions : \A p \in FacePaintPositions : p < c
    /\ fpc = "present" =>
          /\ Cardinality(CirclePositions) = TotalLights
          /\ \A l \in AllLights :
                Cardinality({c \in CirclePositions : screen[c].light = l}) = 1
          /\ Cardinality(FacePaintPositions) >= Len(render_list)

C6_Witness ==
    /\ fpc = "present"
    /\ TotalLights = N_SEGMENTS * LIGHTS_PER_SEGMENT
    /\ Cardinality(CirclePositions) = TotalLights
    /\ \E k \in 1..Len(render_list) : \E m \in 1..Len(render_list) :
          /\ render_list[k].lights # <<>>
          /\ render_list[k].is_back /\ ~render_list[m].is_back
          /\ render_list[m].lights = render_list[k].lights

\* ======================================================================
\* SpecLoop: event handling and loop control of main (lines 161-174, 234-237)
\* ======================================================================
MousePositions ==
    {<<100 * x, 100 * y>> : x \in 0..MaxMouseStep, y \in 0..MaxMouseStep}

Ev(t, k, b, p) == [type |-> t, key |-> k, button |-> b, pos |-> p]

\* the events pygame.event.get() may return
Events ==
    {Ev("QUIT", "", 0, <<0, 0>>), Ev("KEYDOWN", "K_ESCAPE", 0, <<0, 0>>),
     Ev("KEYDOWN", "K_a", 0, <<0, 0>>)}
    \cup {Ev("MOUSEBUTTONDOWN", "", 1, p) : p \in MousePositions}
    \cup {Ev("MOUSEBUTTONDOWN", "", 3, <<0, 0>>),
          Ev("MOUSEBUTTONUP", "", 1, <<0, 0>>), Ev("MOUSEBUTTONUP", "", 3, <<0, 0>>)}
    \cup {Ev("MOUSEMOTION", "", 0, p) : p \in MousePositions}

\* line 168
is_quit(e) ==
    e.type = "QUIT" \/ (e.type = "KEYDOWN" /\ e.key = "K_ESCAPE")

\* the button of a press not looked at
is_any_down(e) == e.type = "MOUSEBUTTONDOWN"

\* line 169
is_left_down(e) == e.type = "MOUSEBUTTONDOWN" /\ e.button = 1

\* line 170
is_left_up(e) == e.type = "MOUSEBUTTONUP" /\ e.button = 1

\* last_mouse_pos not recorded after a motion event
on_motion_stale(st, e) ==
    LET dx == e.pos[1] - st.last_mouse_pos[1]
        dy == e.pos[2] - st.last_mouse_pos[2]
    IN [st EXCEPT !.view_yaw = st.view_yaw + dx * SENSITIVITY,
                  !.view_pitch = st.view_pitch + dy * SENSITIVITY]

\* lines 172-174
on_motion(st, e) ==
    LET dx == e.pos[1] - st.last_mouse_pos[1]
        dy == e.pos[2] - st.last_mouse_pos[2]
    IN [st EXCEPT !.last_mouse_pos = e.pos,
                  !.view_yaw = st.view_yaw + dx * SENSITIVITY,
                  !.view_pitch = st.view_pitch + dy * SENSITIVITY]

\* lines 168-174: the if / elif chain of the event loop
handle_event(st, e) ==
    IF is_quit(e) THEN [st EXCEPT !.running = FALSE]
    ELSE IF is_left_down(e)
         THEN [st EXCEPT !.dragging = TRUE, !.last_mouse_pos = e.pos]
    ELSE IF is_left_up(e) THEN [st EXCEPT !.dragging = FALSE]
    ELSE IF e.type = "MOUSEMOTION" /\ st.dragging THEN on_motion(st, e)
    ELSE st

\* the loop test ignoring the flag
loop_forever(r) == TRUE

\* line 166: while running
loop_continues(r) == r

\* bound on the angles: a motion event that would turn the view farther than
\* 500 * MaxTurn from its initial angle is not drawn
AngleOK(a, a0) == a - a0 <= 500 * MaxTurn /\ a0 - a <= 500 * MaxTurn

InitLoop ==
    /\ pc = "while"
    /\ running = TRUE
    /\ dragging = FALSE /\ last_mouse_pos = <<0, 0>>
    /\ frame = 0 /\ view_pitch = TILT /\ view_yaw = INITIAL_YAW
    /\ event = NoEvent /\ pending = 0 /\ drag_origin = NoOrigin
    /\ GeomIdle /\ FrameIdle

\* lines 166-167: the loop test succeeds and pygame.event.get() returns n events
EnterFrame(n) ==
    /\ pc = "while"
    /\ loop_continues(running)
    /\ frame < MaxFrame
    /\ pending' = n
    /\ pc' = "events"
    /\ UNCHANGED <<running, dragging, last_mouse_pos, view_yaw, view_pitch,
                   frame, event, drag_origin>>
    /\ UNCHANGED <<geomVars, frameVars>>

\* lines 167-174: one iteration of for event in pygame.event.get()
HandleEvent(e) ==
    /\ pc = "events"
    /\ pending > 0
    /\ LET st == [running |-> running, dragging |-> dragging,
                  last_mouse_pos |-> last_mouse_pos,
                  view_yaw |-> view_yaw, view_pitch |-> view_pitch]
           new == handle_event(st, e)
       IN /\ AngleOK(new.view_yaw, INITIAL_YAW)
          /\ AngleOK(new.view_pitch, TILT)
          /\ running' = new.running
          /\ dragging' = new.dragging
          /\ last_mouse_pos' = new.last_mouse_pos
          /\ view_yaw' = new.view_yaw
          /\ view_pitch' = new.view_pitch
          /\ drag_origin' =
                IF ~is_quit(e) /\ is_left_down(e)
                THEN [pos |-> e.pos, yaw |-> view_yaw, pitch |-> view_pitch]
                ELSE IF ~is_quit(e) /\ is_left_up(e) THEN NoOrigin
                ELSE drag_origin
    /\ event' = e
    /\ pending' = pending - 1
    /\ UNCHANGED <<pc, frame>>
    /\ UNCHANGED <<geomVars, frameVars>>

\* the batch is exhausted, the frame body follows
EndEvents ==
    /\ pc = "events"
    /\ pending = 0
    /\ pc' = "render"
    /\ UNCHANGED <<running, dragging, last_mouse_pos, view_yaw, view_pitch,
                   frame, event, pending, drag_origin>>
    /\ UNCHANGED <<geomVars, frameVars>>

\* lines 176-234: the frame is composed and presented (SpecFrame); none of
\* the loop's variables is written
RenderFrame ==
    /\ pc = "render"
    /\ pc' = "flip"
    /\ UNCHANGED <<running, dragging, last_mouse_pos, view_yaw, view_pitch,
                   frame, event, pending, drag_origin>>
    /\ UNCHANGED <<geomVars, frameVars>>

\* lines 235-236
AdvanceFrame ==
    /\ pc = "flip"
    /\ frame' = frame + 1
    /\ pc' = "while"
    /\ UNCHANGED <<running, dragging, last_mouse_pos, view_yaw, view_pitch,
                   event, pending, drag_origin>>
    /\ UNCHANGED <<geomVars, frameVars>>

\* lines 166, 237: the loop test fails, pygame.quit()
ExitLoop ==
    /\ pc = "while"
    /\ ~loop_continues(running)
    /\ pc' = "done"
    /\ UNCHANGED <<running, dragging, last_mouse_pos, view_yaw, view_pitch,
                   frame, event, pending, drag_origin>>
    /\ UNCHANGED <<geomVars, frameVars>>

NextLoop ==
    \/ \E n \in 0..MaxBatch : EnterFrame(n)
    \/ \E e \in Events : HandleEvent(e)
    \/ EndEvents
    \/ RenderFrame
    \/ AdvanceFrame
    \/ ExitLoop

SpecLoop == InitLoop /\ [][NextLoop]_vars

\* a sequential program: the next statement is eventually executed
FairLoop == SpecLoop /\ WF_vars(NextLoop)

\* ---------------------------------------------------------------- claims

\* the step handles one polled event, which is event'
Handled == pc = "events" /\ pending' = pending - 1

C8_QuitEndsLoop ==
    /\ [](pc = "done" => ~running)
    /\ [][(running /\ ~running') => (Handled /\ is_quit(event'))]_vars
    /\ [][~running => ~running']_vars
    /\ [][(pc = "while" /\ pc' = "events") => running]_vars
    /\ [][(~running /\ frame' # frame) => (pc' = "while" /\ frame' = frame + 1)]_vars
    /\ [][(is_quit(event') /\ Handled) => ~running']_vars
    /\ (~running ~> pc = "done")

C8_Witness ==
    /\ pc = "done" /\ ~running
    /\ frame = 2 /\ is_quit(event)

\* C10: yaw and pitch change only on a motion event during a drag; dragging
\* is set by a button-1 press, cleared by a button-1 release and changed by
\* nothing else; motion without a drag and presses or releases of another
\* button leave yaw, pitch and dragging alone; no event changes the frame
\* counter, which goes up by exactly 1 at the end of each loop iteration.
C10_InputFrame ==
    /\ [][(view_yaw' # view_yaw \/ view_pitch' # view_pitch) =>
            (Handled /\ dragging /\ event'.type = "MOUSEMOTION")]_vars
    /\ [][Handled =>
            dragging' = (IF event'.type = "MOUSEBUTTONDOWN" /\ event'.button = 1
                         THEN TRUE
                         ELSE IF event'.type = "MOUSEBUTTONUP" /\ event'.button = 1
                         THEN FALSE
                         ELSE dragging)]_vars
    /\ [][~Handled => dragging' = dragging]_vars
    /\ [][(Handled /\ (\/ event'.type = "MOUSEMOTION" /\ ~dragging
                       \/ event'.type \in {"MOUSEBUTTONDOWN", "MOUSEBUTTONUP"}
                          /\ event'.button # 1)) =>
            UNCHANGED <<view_yaw, view_pitch, dragging>>]_vars
    /\ [][Handled => frame' = frame]_vars
    /\ [][frame' # frame => (frame' = frame + 1 /\ pc = "flip")]_vars
    /\ [][(pc = "flip" /\ pc' # "flip") => frame' = frame + 1]_vars

C10_Witness ==
    /\ pc = "events" /\ frame = 1
    /\ event.type = "MOUSEMOTION" /\ ~dragging
    /\ event.pos # last_mouse_pos
    /\ view_yaw = INITIAL_YAW /\ view_pitch = TILT

====
